---------------------------- MODULE Spec2Model ----------------------------
(***************************************************************************)
(* The three build pipelines of otroff as one state machine over a       *)
(* working directory:                                                      *)
(*   croff/bothrc.py  TroffBuilder  t.s, hytab.s -> t.o, hytab.o  (as)     *)
(*   croff/nrc.py     NroffBuilder  n*.c + *.o   -> nroff     (cc, strip)  *)
(*   neqn/neqnrc.py   NeqnBuilder   ne.g, ne*.c  -> neqn      (yacc, cc)   *)
(* A behaviour fixes one builder and its configuration and then performs  *)
(* any number of runs of it on the same working directory, one stage      *)
(* (method call of build/build_all) per step.  External tools and         *)
(* OS-level unlink/rename errors are nondeterministic.  File contents are *)
(* named relative to the start of the current run, so the state space is  *)
(* finite without a bound on the number of runs.                          *)
(***************************************************************************)
EXTENDS Naturals, Sequences, FiniteSets, TLC

VARIABLES builder,      \* "troff" | "nroff" | "neqn": which script runs
          cfg,          \* the builder object's configuration attributes
          fs,           \* the working directory: file name -> file state
          pc,           \* position inside build()/build_all()
          idx,          \* loop index: build_all's build_targets,
                        \* check_dependencies' tools_to_check
          missing,      \* NeqnBuilder.check_dependencies: missing_items # []
          created_files,\* TroffBuilder.build_all: created_files
          outcome,      \* verdict of the run: "none" while it is running
          failStage,    \* the stage at which the run failed ("" if none)
          log,          \* events of the current run, in order
          results,      \* how the processes started by the last stage ended
          pre,          \* the working directory when the current run started
          everGood,     \* some run has reported success
          env,          \* how the tools and the OS behave: in any way, or
                        \* the same way every time they are called
          lastRun,      \* with such tools: how the previous run ended
          stdin,        \* tools/cmporder.py: the text on its standard input
          stdout        \* tools/cmporder.py: the text it has written

vars == <<builder, cfg, fs, pc, idx, missing, created_files, outcome, failStage,
          log, results, pre, everGood, env, lastRun, stdin, stdout>>

\* The standard streams, which only cmporder uses.
io == <<stdin, stdout>>

(* --------------------------- file states ------------------------------ *)
\* A file: ex = exists, size = 0 (zero bytes) or 1 (non-empty), x = marked
\* executable.  Its content is identified by org, the name under which it
\* lay when the current run started ("tool": written by a tool of this run),
\* and good marks the content of the final artifact of the most recent run
\* that reported success.
Absent == [ex |-> FALSE, size |-> 0, x |-> FALSE, org |-> "", good |-> FALSE]

File(size, x, org) ==
    [ex |-> TRUE, size |-> size, x |-> x, org |-> org, good |-> FALSE]

\* Path.exists()
Exists(f, name) == f[name].ex

\* Path.stat().st_size == 0
IsEmpty(f, name) == f[name].size = 0

\* Path.unlink() that succeeded
Unlink(f, name) == [f EXCEPT ![name] = Absent]

\* A rename that leaves the source in place beside the target.
Rename_keeps_source(f, from, to) == [f EXCEPT ![to] = f[from]]

\* Path.rename(target) that succeeded: replaces target, source disappears
Rename(f, from, to) == [f EXCEPT ![to] = f[from], ![from] = Absent]

\* The run reported success with the file name as its final artifact: its
\* content becomes the last good one.
MarkGood(f, name) ==
    [n \in DOMAIN f |-> IF f[n].ex THEN [f[n] EXCEPT !.good = (n = name)]
                        ELSE f[n]]

\* The directory as a run finds it: every content identified by its name.
Retag(f) ==
    [n \in DOMAIN f |-> IF f[n].ex THEN [f[n] EXCEPT !.org = n] ELSE f[n]]

\* What a tool that was started leaves under its output name.
\* "none": writes nothing; otherwise a file of the given size / mode.
OutKinds == {"none", "emptyx", "data", "datax"}

Written(kind) ==
    CASE kind = "emptyx" -> File(0, TRUE, "tool")
      [] kind = "data"   -> File(1, FALSE, "tool")
      [] kind = "datax"  -> File(1, TRUE, "tool")

Write(f, name, kind) ==
    IF kind = "none" THEN f ELSE [f EXCEPT ![name] = Written(kind)]

\* How subprocess.run ends: the executable cannot be resolved
\* (FileNotFoundError), the process exits 0 or non-zero, or it never returns.
ToolResults == {"notfound", "exit0", "exit1", "hang"}

\* The results a build tool can end with: any, or with tools that behave the
\* same way every time, the one result of that tool.
ResultsOf(tool) == IF env.mode = "any" THEN ToolResults ELSE {env[tool]}

\* The results of an availability probe, and whether an unlink or rename
\* succeeds: with tools and an OS that behave the same way every time, the
\* probes exit 0 and no unlink or rename raises an error.
ProbeResults == IF env.mode = "any" THEN ToolResults ELSE {"exit0"}

OsOk == IF env.mode = "any" THEN BOOLEAN ELSE {TRUE}

\* One event of the log.
Ev(kind, name, res) == [kind |-> kind, name |-> name, res |-> res]


(* ----------------------- the working directory ------------------------ *)
\* TroffBuilder.build_all: build_targets, as <<source, output>> pairs
build_targets == << <<"t.s", "t.o">>, <<"hytab.s", "hytab.o">> >>

\* TroffBuilder.build_all: output_files
output_files == {build_targets[i][2] : i \in 1..Len(build_targets)}

\* TroffBuilder.temp_output, and the a.out of nrc.py and neqnrc.py
temp_output == "a.out"

TroffFiles == {"t.s", "hytab.s", "a.out", "t.o", "hytab.o"}

\* The final artifact of the compile and grammar pipelines
\* (self.output_executable) and its backup (f"{output_executable}.backup").
output_executable == [nroff |-> "nroff", neqn |-> "neqn"]

backup_path == [nroff |-> "nroff.backup", neqn |-> "neqn.backup"]

(* ------------------------ TroffBuilder (bothrc.py) -------------------- *)
\* _validate_assembler: `as --version`, and `as --help` when that exits
\* non-zero; both with timeout=10.  Only TimeoutExpired / FileNotFoundError
\* raise AssemblyBuildError; the exit code of the second probe is ignored.
\* r1, r2: how the two probes end.  Result: ok flag, the log event (one per
\* probed tool) and how the probe processes ended.
Troff_validate_assembler(r1, r2) ==
    LET p == << Ev("probe", "as", "started") >>
    IN  IF r1 = "exit0" THEN [ok |-> TRUE, ev |-> p, rs |-> <<r1>>]
        ELSE IF r1 = "exit1"
             THEN [ok |-> r2 \in {"exit0", "exit1"}, ev |-> p,
                   rs |-> <<r1, r2>>]
             ELSE [ok |-> FALSE, ev |-> p, rs |-> <<r1>>]

\* A cleanup that removes the output files together with a.out.
Troff_clean_temp_and_outputs(f, okT) ==
    [n \in DOMAIN f |->
        IF n \in {"a.out", "t.o", "hytab.o"} THEN Absent ELSE f[n]]

\* _clean_temp_files: unlink a.out if it exists; an OSError is only warned
\* about.  okT: whether the unlink succeeds.
Troff_clean_temp_files(f, okT) ==
    IF Exists(f, temp_output) /\ okT THEN Unlink(f, temp_output) ELSE f

\* The sets of files whose unlink fails during one cleanup: none, or one.
Locked(hit) == IF env.mode = "any" THEN {{}} \cup {{n} : n \in hit} ELSE {{}}

\* clean_output_files: unlink every existing output file; an OSError is only
\* warned about.  locked: the files whose unlink raises OSError.
Troff_clean_output_files(f, locked) ==
    [n \in DOMAIN f |->
        IF n \in output_files /\ n \notin locked THEN Absent ELSE f[n]]

\* What a tool can leave under its output name, by the way it ended.
ToolLeaves(r) ==
    IF r = "exit0" THEN OutKinds
    ELSE IF r = "exit1" THEN {"none", "emptyx"}
    ELSE {"none"}

LeavesOf(r) == IF env.mode = "any" THEN ToolLeaves(r) ELSE {env.out}

\* _validate_source_file: the source exists and is not empty.
Troff_validate_source_file(f, src) == Exists(f, src) /\ ~IsEmpty(f, src)

\* assemble_file(source_file, output_file).
\*   r, o : how the assembler ends and what it leaves as a.out
\*   okT  : the unlink of a stale a.out succeeds
\*   okO  : the unlink of an existing output file succeeds
\*   okR  : the rename a.out -> output file succeeds
\* Result: res = "ok" (returns True), "abe" (raises AssemblyBuildError) or
\* "fnf" (FileNotFoundError escapes: it is no SubprocessError), the stage
\* that raised, the directory afterwards and the events.
Troff_assemble_file(f, src, out, r, o, okT, okO, okR) ==
    LET f1 == Troff_clean_temp_files(f, okT)
        f2 == Write(f1, temp_output, o)
        f3 == IF Exists(f2, out) THEN Unlink(f2, out) ELSE f2
        f4 == Rename(f3, temp_output, out)
        run_ev == << Ev("tool", "as " \o src, r) >>
        ul_ev == IF Exists(f2, out)
                 THEN << Ev("unlink", out, IF okO THEN "ok" ELSE "oserror") >>
                 ELSE << >>
        rn_ev == << Ev("rename", out, IF okR THEN "ok" ELSE "oserror") >>
    IN  IF ~Troff_validate_source_file(f, src)
        THEN [res |-> "abe", stage |-> "validate_source", f |-> f, ev |-> << >>]
        ELSE IF r = "notfound"
        THEN [res |-> "fnf", stage |-> "assemble", f |-> f1, ev |-> run_ev]
        ELSE IF r = "hang"   \* timeout=60: TimeoutExpired
        THEN [res |-> "abe", stage |-> "assemble", f |-> f1, ev |-> run_ev]
        ELSE IF r = "exit1"
        THEN [res |-> "abe", stage |-> "assemble", f |-> f2, ev |-> run_ev]
        ELSE IF ~Exists(f2, temp_output)
        THEN [res |-> "abe", stage |-> "expected_output", f |-> f2, ev |-> run_ev]
        ELSE IF Exists(f2, out) /\ ~okO
        THEN [res |-> "abe", stage |-> "rename", f |-> f2, ev |-> run_ev \o ul_ev]
        ELSE IF ~okR
        THEN [res |-> "abe", stage |-> "rename", f |-> f3,
              ev |-> run_ev \o ul_ev \o rn_ev]
        ELSE IF ~Exists(f4, out) \/ IsEmpty(f4, out)
        THEN [res |-> "abe", stage |-> "verify", f |-> f4,
              ev |-> run_ev \o ul_ev \o rn_ev]
        ELSE [res |-> "ok", stage |-> "", f |-> f4,
              ev |-> run_ev \o ul_ev \o rn_ev]

\* build_all, try block: self._validate_assembler()
TroffValidateAssembler ==
    /\ builder = "troff" /\ pc = "validate_assembler"
    /\ \E r1 \in ProbeResults, r2 \in ProbeResults :
         LET v == Troff_validate_assembler(r1, r2)
         IN  /\ log' = log \o v.ev
             /\ results' = v.rs
             /\ pc' = IF v.ok THEN "clean_output_files" ELSE "except"
             /\ failStage' = IF v.ok THEN "" ELSE "validate_assembler"
    /\ UNCHANGED <<io, env, lastRun, builder, cfg, fs, idx, missing, created_files, outcome, pre,
                   everGood>>

\* build_all, try block: self.clean_output_files(output_files)
TroffCleanOutputFiles ==
    /\ builder = "troff" /\ pc = "clean_output_files"
    /\ \E locked \in Locked({n \in output_files : Exists(fs, n)}) :
         /\ fs' = Troff_clean_output_files(fs, locked)
         /\ log' = log \o << Ev("stage", "clean_output_files", "ok") >>
    /\ results' = << >>
    /\ pc' = "assemble"
    /\ UNCHANGED <<io, env, lastRun, builder, cfg, idx, missing, created_files, outcome, failStage,
                   pre, everGood>>

\* build_all, try block: one iteration of the loop over build_targets, and
\* the return after the last one.
TroffAssembleFile ==
    /\ builder = "troff" /\ pc = "assemble"
    /\ \E r \in ResultsOf("as"), okT \in OsOk, okO \in OsOk, okR \in OsOk :
       \E o \in LeavesOf(r) :
         LET a == Troff_assemble_file(fs, build_targets[idx][1],
                                      build_targets[idx][2],
                                      r, o, okT, okO, okR)
             last == (idx = Len(build_targets))
         IN  /\ fs' = a.f
             /\ log' = log \o a.ev
             /\ results' = IF a.stage = "validate_source" THEN << >> ELSE <<r>>
             /\ failStage' = a.stage
             /\ created_files' = IF a.res = "ok"
                                 THEN Append(created_files, build_targets[idx][2])
                                 ELSE created_files
             /\ idx' = IF a.res = "ok" /\ ~last THEN idx + 1 ELSE idx
             /\ pc' = CASE a.res = "ok" /\ ~last -> "assemble"
                        [] a.res = "ok" /\ last  -> "done"
                        [] a.res = "abe"         -> "except"
                        [] a.res = "fnf"         -> "done"
             /\ outcome' = CASE a.res = "ok" /\ ~last -> "none"
                             [] a.res = "ok" /\ last  -> "success"
                             [] a.res = "abe"         -> "none"
                             [] a.res = "fnf"         -> "error"
    /\ UNCHANGED <<io, env, lastRun, builder, cfg, missing, pre, everGood>>

\* build_all, except AssemblyBuildError: self._clean_temp_files(); raise
TroffExcept ==
    /\ builder = "troff" /\ pc = "except"
    /\ \E okT \in OsOk :
         /\ fs' = Troff_clean_temp_files(fs, okT)
         /\ log' = log \o << Ev("stage", "clean_temp_files",
                               IF Exists(fs, temp_output) /\ ~okT
                               THEN "oserror" ELSE "ok") >>
    /\ results' = << >>
    /\ pc' = "done"
    /\ outcome' = "failed"
    /\ UNCHANGED <<io, env, lastRun, builder, cfg, idx, missing, created_files, failStage, pre,
                   everGood>>

(* ------------------------- NroffBuilder (nrc.py) ---------------------- *)
\* NroffBuilder.source_files
source_files == <<"n1.c", "n2.c", "n3.c", "n4.c", "n5.c", "n6.c", "n7.c",
                  "n8.c", "n9.c", "n10.c", "ni.c", "nii.c", "ntab.c">>

\* NroffBuilder.object_files
object_files == <<"hytab.o", "t.o">>

Range(s) == {s[i] : i \in 1..Len(s)}

NroffInputs == Range(source_files) \cup Range(object_files)

NroffFiles == NroffInputs \cup {"a.out", "nroff", "nroff.backup"}

\* A backup step whose failure is reported as success.
backup_failure_tolerated(f, b, enabled, okU, okR) ==
    LET exe == output_executable[b]
        bak == backup_path[b]
        f1 == IF Exists(f, bak) THEN Unlink(f, bak) ELSE f
    IN  IF ~enabled
        THEN [ok |-> TRUE, f |-> f, ev |-> << Ev("stage", "backup", "disabled") >>]
        ELSE IF ~Exists(f, exe)
        THEN [ok |-> TRUE, f |-> f, ev |-> << Ev("stage", "backup", "skipped") >>]
        ELSE IF Exists(f, bak) /\ ~okU
        THEN [ok |-> TRUE, f |-> f, ev |-> << Ev("stage", "backup", "failed") >>]
        ELSE IF ~okR
        THEN [ok |-> TRUE, f |-> f1, ev |-> << Ev("stage", "backup", "failed") >>]
        ELSE [ok |-> TRUE, f |-> Rename(f1, exe, bak),
              ev |-> << Ev("stage", "backup", "done") >>]

\* A backup step that keeps a backup it finds instead of replacing it.
backup_keeps_stale(f, b, enabled, okU, okR) ==
    LET exe == output_executable[b]
        bak == backup_path[b]
    IN  IF ~enabled
        THEN [ok |-> TRUE, f |-> f, ev |-> << Ev("stage", "backup", "disabled") >>]
        ELSE IF ~Exists(f, exe)
        THEN [ok |-> TRUE, f |-> f, ev |-> << Ev("stage", "backup", "skipped") >>]
        ELSE IF Exists(f, bak)
        THEN [ok |-> TRUE, f |-> Unlink(f, exe),
              ev |-> << Ev("stage", "backup", "done") >>]
        ELSE [ok |-> TRUE, f |-> Rename(f, exe, bak),
              ev |-> << Ev("stage", "backup", "done") >>]

\* backup_existing_executable (the same code in nrc.py and neqnrc.py).
\*   okU : the unlink of a stale backup succeeds
\*   okR : the rename executable -> backup succeeds
\* Result: ok (the return value), the directory afterwards, the events.
backup_existing_executable(f, b, enabled, okU, okR) ==
    LET exe == output_executable[b]
        bak == backup_path[b]
        f1 == IF Exists(f, bak) THEN Unlink(f, bak) ELSE f
        ul_ev == IF Exists(f, bak)
                 THEN << Ev("unlink", bak, IF okU THEN "ok" ELSE "oserror") >>
                 ELSE << >>
        rn_ev == << Ev("rename", bak, IF okR THEN "ok" ELSE "oserror") >>
    IN  IF ~enabled
        THEN [ok |-> TRUE, f |-> f, ev |-> << Ev("stage", "backup", "disabled") >>]
        ELSE IF ~Exists(f, exe)
        THEN [ok |-> TRUE, f |-> f, ev |-> << Ev("stage", "backup", "skipped") >>]
        ELSE IF Exists(f, bak) /\ ~okU
        THEN [ok |-> FALSE, f |-> f,
              ev |-> ul_ev \o << Ev("stage", "backup", "failed") >>]
        ELSE IF ~okR
        THEN [ok |-> FALSE, f |-> f1,
              ev |-> ul_ev \o rn_ev \o << Ev("stage", "backup", "failed") >>]
        ELSE [ok |-> TRUE, f |-> Rename(f1, exe, bak),
              ev |-> ul_ev \o rn_ev \o << Ev("stage", "backup", "done") >>]

\* A dependency check that accepts a directory with missing inputs.
Nroff_check_dependencies_lax(f) ==
    \E n \in NroffInputs : Exists(f, n)

\* NroffBuilder.check_dependencies: False iff a source or object file does
\* not exist.  An empty file is only warned about.
Nroff_check_dependencies(f) ==
    \A n \in NroffInputs : Exists(f, n)

\* A run_command that takes a non-zero exit for a success.
run_command_ignores_exit(r) ==
    CASE r = "exit0"    -> "true"
      [] r = "exit1"    -> "true"
      [] r = "notfound" -> "false"
      [] r = "hang"     -> "blocked"

\* run_command (the same code in nrc.py and neqnrc.py): subprocess.run with
\* check=True and no timeout.  True on exit 0, False on CalledProcessError
\* and FileNotFoundError; a process that never returns blocks the call.
run_command(r) ==
    CASE r = "exit0"    -> "true"
      [] r = "exit1"    -> "false"
      [] r = "notfound" -> "false"
      [] r = "hang"     -> "blocked"

\* run_command: the message it logs at error level and returns next to False.
\* A process that exited non-zero has written to stderr, and what it wrote is
\* appended to the message ("stderr" stands for that text).
run_command_message(description, r) ==
    CASE r = "exit1"    -> <<description, "failed with exit code", "stderr">>
      [] r = "notfound" -> <<"Command not found">>
      [] OTHER          -> << >>

\* A rename_executable that removes the old executable before it looks for
\* a.out.
Nroff_rename_unlinks_first(f, okU, okR) ==
    LET exe == output_executable["nroff"]
        f1 == IF Exists(f, exe) /\ okU THEN Unlink(f, exe) ELSE f
        ul_ev == IF Exists(f, exe)
                 THEN << Ev("unlink", exe, IF okU THEN "ok" ELSE "oserror") >>
                 ELSE << >>
        rn_ev == << Ev("rename", exe, IF okR THEN "ok" ELSE "oserror") >>
    IN  IF Exists(f, exe) /\ ~okU
        THEN [ok |-> FALSE, f |-> f, ev |-> ul_ev]
        ELSE IF ~Exists(f, "a.out")
        THEN [ok |-> FALSE, f |-> f1, ev |-> ul_ev]
        ELSE IF ~okR
        THEN [ok |-> FALSE, f |-> f1, ev |-> ul_ev \o rn_ev]
        ELSE [ok |-> TRUE, f |-> Rename(f1, "a.out", exe), ev |-> ul_ev \o rn_ev]

\* rename_executable of nrc.py.
\*   okU : the unlink of an existing nroff succeeds
\*   okR : the rename a.out -> nroff succeeds
Nroff_rename_executable(f, okU, okR) ==
    LET exe == output_executable["nroff"]
        f1 == IF Exists(f, exe) THEN Unlink(f, exe) ELSE f
        ul_ev == IF Exists(f, exe)
                 THEN << Ev("unlink", exe, IF okU THEN "ok" ELSE "oserror") >>
                 ELSE << >>
        rn_ev == << Ev("rename", exe, IF okR THEN "ok" ELSE "oserror") >>
    IN  IF ~Exists(f, "a.out")
        THEN [ok |-> FALSE, f |-> f, ev |-> << >>]
        ELSE IF Exists(f, exe) /\ ~okU
        THEN [ok |-> FALSE, f |-> f, ev |-> ul_ev]
        ELSE IF ~okR
        THEN [ok |-> FALSE, f |-> f1, ev |-> ul_ev \o rn_ev]
        ELSE [ok |-> TRUE, f |-> Rename(f1, "a.out", exe), ev |-> ul_ev \o rn_ev]

\* validate_build (nrc.py and neqnrc.py): False unless the executable exists
\* and os.access(X_OK) holds; the size is only logged.  Then the trial
\* execution, of which the exit code is ignored and TimeoutExpired and
\* FileNotFoundError are caught; any other OSError of subprocess.run leaves
\* validate_build as an exception.  Otherwise True.
\*   t : how the trial execution ends
validate_build(f, b, t) ==
    IF ~(Exists(f, output_executable[b]) /\ f[output_executable[b]].x)
    THEN "false"
    ELSE IF t = "oserror" THEN "oserror" ELSE "true"

\* A trial execution that a zero-byte file passes like any other.
TrialOf_any_file(x) ==
    IF env.mode = "any" THEN {"exit0", "exit1", "hang", "notfound"}
    ELSE {"exit0"}

\* How the trial execution of validate_build can end (timeout=5 / timeout=2:
\* a process that never returns ends as TimeoutExpired).  "notfound" is the
\* FileNotFoundError of a script whose interpreter is missing, "oserror" any
\* other OSError of the exec: ENOEXEC for a file that is no program, EACCES.
TrialResults == {"exit0", "exit1", "hang", "notfound", "oserror"}

\* The ways the trial execution of file x can end: a zero-byte file is no
\* program, and its exec fails with ENOEXEC.
TrialOf(x) ==
    IF x.size = 0 THEN {"oserror"}
    ELSE IF env.mode = "any" THEN TrialResults ELSE {"exit0"}

\* build(): if not self.backup_existing_executable(): return False
NroffBackup ==
    /\ builder = "nroff" /\ pc = "backup"
    /\ \E okU \in OsOk, okR \in OsOk :
         LET b == backup_existing_executable(fs, "nroff", cfg.backup_existing,
                                             okU, okR)
         IN  /\ fs' = b.f
             /\ log' = log \o b.ev
             /\ results' = << >>
             /\ pc' = IF b.ok THEN "check_dependencies" ELSE "done"
             /\ outcome' = IF b.ok THEN "none" ELSE "failed"
             /\ failStage' = IF b.ok THEN "" ELSE "backup"
    /\ UNCHANGED <<io, env, lastRun, builder, cfg, idx, missing, created_files, pre, everGood>>

\* build(): if not self.check_dependencies(): return False
NroffCheckDependencies ==
    /\ builder = "nroff" /\ pc = "check_dependencies"
    /\ LET ok == Nroff_check_dependencies(fs)
       IN  /\ log' = log \o << Ev("stage", "check_dependencies",
                                 IF ok THEN "ok" ELSE "failed") >>
           /\ results' = << >>
           /\ pc' = IF ok THEN "compile_and_link" ELSE "done"
           /\ outcome' = IF ok THEN "none" ELSE "failed"
           /\ failStage' = IF ok THEN "" ELSE "check_dependencies"
    /\ UNCHANGED <<io, env, lastRun, builder, cfg, fs, idx, missing, created_files, pre, everGood>>

\* build(): if not self.compile_and_link(): return False
\* cc -DNROFF -n -O <sources> <objects>, which writes a.out.
NroffCompileAndLink ==
    /\ builder = "nroff" /\ pc = "compile_and_link"
    /\ \E r \in ResultsOf("cc") : \E o \in LeavesOf(r) :
         LET rc == run_command(r)
         IN  /\ fs' = Write(fs, "a.out", o)
             /\ log' = log \o << Ev("tool", "cc", r) >>
             /\ results' = <<r>>
             /\ pc' = CASE rc = "true"    -> "strip_executable"
                        [] rc = "false"   -> "done"
                        [] rc = "blocked" -> "blocked"
             /\ outcome' = IF rc = "false" THEN "failed" ELSE "none"
             /\ failStage' = IF rc = "false" THEN "compile_and_link" ELSE ""
    /\ UNCHANGED <<io, env, lastRun, builder, cfg, idx, missing, created_files, pre, everGood>>

\* build(): if not self.strip_executable(): return False
\* Skipped (True) when strip_symbols is off; False when a.out is missing;
\* otherwise `strip a.out`, which rewrites a.out in place.
NroffStripExecutable ==
    /\ builder = "nroff" /\ pc = "strip_executable"
    /\ \E r \in ResultsOf("strip") :
         LET skip == ~cfg.strip_symbols
             miss == ~Exists(fs, "a.out")
             rc == IF skip THEN "true"
                   ELSE IF miss THEN "false" ELSE run_command(r)
         IN  /\ log' = IF skip \/ miss THEN log
                       ELSE log \o << Ev("tool", "strip", r) >>
             /\ results' = IF skip \/ miss THEN << >> ELSE <<r>>
             /\ pc' = CASE rc = "true"    -> "rename_executable"
                        [] rc = "false"   -> "done"
                        [] rc = "blocked" -> "blocked"
             /\ outcome' = IF rc = "false" THEN "failed" ELSE "none"
             /\ failStage' = IF rc = "false" THEN "strip_executable" ELSE ""
    /\ UNCHANGED <<io, env, lastRun, builder, cfg, fs, idx, missing, created_files, pre, everGood>>

\* build(): if not self.rename_executable(): return False
NroffRenameExecutable ==
    /\ builder = "nroff" /\ pc = "rename_executable"
    /\ \E okU \in OsOk, okR \in OsOk :
         LET m == Nroff_rename_executable(fs, okU, okR)
         IN  /\ fs' = m.f
             /\ log' = log \o m.ev
             /\ results' = << >>
             /\ pc' = IF m.ok THEN "validate_build" ELSE "done"
             /\ outcome' = IF m.ok THEN "none" ELSE "failed"
             /\ failStage' = IF m.ok THEN "" ELSE "rename_executable"
    /\ UNCHANGED <<io, env, lastRun, builder, cfg, idx, missing, created_files, pre, everGood>>

\* build(): if not self.validate_build(): return False; return True
\* An exception of validate_build leaves build() as it is.
NroffValidateBuild ==
    /\ builder = "nroff" /\ pc = "validate_build"
    /\ \E t \in TrialOf(fs["nroff"]) :
         LET v == validate_build(fs, "nroff", t)
             ok == v = "true"
         IN  /\ log' = IF v # "false"
                       THEN log \o << Ev("trial", "nroff --help", "started") >>
                       ELSE log
             /\ results' = IF v # "false" THEN <<t>> ELSE << >>
             /\ pc' = "done"
             /\ outcome' = CASE v = "true"    -> "success"
                             [] v = "false"   -> "failed"
                             [] v = "oserror" -> "error"
             /\ failStage' = IF ok THEN "" ELSE "validate_build"
             /\ fs' = IF ok THEN MarkGood(fs, "nroff") ELSE fs
             /\ everGood' = (ok \/ everGood)
    /\ UNCHANGED <<io, env, lastRun, builder, cfg, idx, missing, created_files, pre>>

\* NroffBuilder.clean_build: artifacts
Nroff_clean_artifacts == <<"a.out", "nroff">>

\* NroffBuilder.clean_build: the artifacts are unlinked in order, and the
\* first unlink that raises OSError makes it return False at once.
\*   locked : the files whose unlink raises OSError
RECURSIVE Nroff_clean_from(_, _, _)
Nroff_clean_from(f, i, locked) ==
    IF i > Len(Nroff_clean_artifacts)
    THEN [ok |-> TRUE, f |-> f, ev |-> << >>]
    ELSE LET a == Nroff_clean_artifacts[i]
         IN  IF ~Exists(f, a) THEN Nroff_clean_from(f, i + 1, locked)
             ELSE IF a \in locked
             THEN [ok |-> FALSE, f |-> f, ev |-> << Ev("unlink", a, "oserror") >>]
             ELSE Nroff_clean_from(Unlink(f, a), i + 1, locked)

Nroff_clean_build(f, locked) == Nroff_clean_from(f, 1, locked)

(* ------------------------ NeqnBuilder (neqnrc.py) --------------------- *)
\* NeqnBuilder.grammar_file
grammar_file == "ne.g"

\* NeqnBuilder.generated_files
generated_files == <<"y.tab.c", "y.tab.h">>

\* The C sources and the objects cc leaves for them in the neqn directory.
NeqnSources == {"ne0.c", "ne1.c"}

NeqnObjects == {"ne0.o", "ne1.o"}

NeqnFiles == {grammar_file} \cup NeqnSources \cup Range(generated_files)
             \cup NeqnObjects \cup {"a.out", "ne", "neqn", "neqn.backup"}

\* The characters of the names and patterns used in the neqn directory.
Chars ==
    ("ne.g" :> <<"n","e",".","g">>) @@
    ("ne0.c" :> <<"n","e","0",".","c">>) @@
    ("ne1.c" :> <<"n","e","1",".","c">>) @@
    ("y.tab.c" :> <<"y",".","t","a","b",".","c">>) @@
    ("y.tab.h" :> <<"y",".","t","a","b",".","h">>) @@
    ("ne0.o" :> <<"n","e","0",".","o">>) @@
    ("ne1.o" :> <<"n","e","1",".","o">>) @@
    ("a.out" :> <<"a",".","o","u","t">>) @@
    ("ne" :> <<"n","e">>) @@
    ("neqn" :> <<"n","e","q","n">>) @@
    ("neqn.backup" :> <<"n","e","q","n",".","b","a","c","k","u","p">>) @@
    ("ne*.c" :> <<"n","e","*",".","c">>) @@
    ("*.o" :> <<"*",".","o">>)

\* Shell-style matching of a name against a pattern, as Path.glob does for
\* one path component: "*" matches any run of characters.
RECURSIVE FnMatch(_, _)
FnMatch(p, n) ==
    IF p = << >> THEN n = << >>
    ELSE IF Head(p) = "*"
         THEN FnMatch(Tail(p), n) \/ (n # << >> /\ FnMatch(p, Tail(n)))
         ELSE n # << >> /\ Head(p) = Head(n) /\ FnMatch(Tail(p), Tail(n))

\* The names of the neqn directory each pattern matches.
Patterns == {"ne*.c", "*.o", "y.tab.c"}

Matching ==
    [p \in Patterns |-> {n \in NeqnFiles : FnMatch(Chars[p], Chars[n])}]

\* list(self.build_dir.glob(pattern)): the existing files matching it
Glob(f, pattern) == {n \in Matching[pattern] : Exists(f, n)}

\* NeqnBuilder.source_pattern
source_pattern == "ne*.c"

\* NeqnBuilder.intermediate_files
intermediate_files == <<"*.o", "y.tab.c">>

\* _check_tool_availability: `tool --version` (timeout=5) returning at all
\* is enough; on TimeoutExpired / FileNotFoundError, `which tool` must exit 0.
\*   r : how `tool --version` ends;  w : how `which tool` ends
Neqn_check_tool_availability(tool, r, w) ==
    LET p == << Ev("probe", tool, "started") >>
    IN  IF r \in {"exit0", "exit1"}
        THEN [ok |-> TRUE, ev |-> p, rs |-> <<r>>]
        ELSE [ok |-> (w = "exit0"), ev |-> p, rs |-> <<r, w>>]

\* NeqnBuilder.tools_to_check in check_dependencies
tools_to_check == <<"yacc", "cc">>

\* NeqnBuilder.check_dependencies, the file checks: the grammar file exists
\* and some file matches ne*.c.  An empty file is only warned about.  The
\* tools are probed next, whatever these checks found.
Neqn_check_files(f) ==
    Exists(f, grammar_file) /\ Glob(f, source_pattern) # {}

\* What yacc can leave: nothing, y.tab.c, or y.tab.c and y.tab.h (-d).
GenKinds == {{}, {"y.tab.c"}, {"y.tab.c", "y.tab.h"}}

GenOf(r) ==
    IF env.mode # "any" THEN {env.gen}
    ELSE IF r = "exit0" THEN GenKinds ELSE {{}}

\* What cc can leave besides a.out: no object, or one for every source.
ObjsOf(r) ==
    IF env.mode # "any" THEN {env.objs}
    ELSE IF r = "exit0" THEN {{}, NeqnObjects} ELSE {{}}

\* The files of set names written by a tool (non-empty, not executable).
WriteAll(f, names) ==
    [n \in DOMAIN f |-> IF n \in names THEN File(1, FALSE, "tool") ELSE f[n]]

\* rename_executable of neqnrc.py: the first existing of a.out, ne is renamed
\* to neqn.
\*   okU : the unlink of an existing neqn succeeds
\*   okR : the rename succeeds
Neqn_rename_executable(f, okU, okR) ==
    LET exe == output_executable["neqn"]
        tmp == IF Exists(f, "a.out") THEN "a.out" ELSE "ne"
        f1 == IF Exists(f, exe) THEN Unlink(f, exe) ELSE f
        ul_ev == IF Exists(f, exe)
                 THEN << Ev("unlink", exe, IF okU THEN "ok" ELSE "oserror") >>
                 ELSE << >>
        rn_ev == << Ev("rename", exe, IF okR THEN "ok" ELSE "oserror") >>
    IN  IF ~Exists(f, "a.out") /\ ~Exists(f, "ne")
        THEN [ok |-> FALSE, f |-> f, ev |-> << >>]
        ELSE IF Exists(f, exe) /\ ~okU
        THEN [ok |-> FALSE, f |-> f, ev |-> ul_ev]
        ELSE IF ~okR
        THEN [ok |-> FALSE, f |-> f1, ev |-> ul_ev \o rn_ev]
        ELSE [ok |-> TRUE, f |-> Rename(f1, tmp, exe), ev |-> ul_ev \o rn_ev]

\* The files the intermediate patterns match.
IntermediateMatches(f) ==
    UNION {Glob(f, intermediate_files[i]) : i \in 1..Len(intermediate_files)}

\* A cleanup in which each flag guards its own pattern: cleanup_objects the
\* object files, cleanup_generated y.tab.c.
Neqn_cleanup_per_flag(f, c, locked) ==
    LET hit == (IF c.cleanup_objects THEN Glob(f, "*.o") ELSE {})
               \cup (IF c.cleanup_generated THEN Glob(f, "y.tab.c") ELSE {})
    IN  [ok |-> (hit \cap locked = {}),
         f |-> [n \in DOMAIN f |->
                  IF n \in hit /\ n \notin locked THEN Absent ELSE f[n]]]

\* cleanup_intermediate_files: skipped when both cleanup flags are off;
\* otherwise every file matching an intermediate pattern is unlinked, the
\* failures are collected and make the result False.
\*   locked : the files whose unlink raises OSError
Neqn_cleanup_intermediate_files(f, c, locked) ==
    LET hit == IntermediateMatches(f)
    IN  IF ~(c.cleanup_objects \/ c.cleanup_generated)
        THEN [ok |-> TRUE, f |-> f]
        ELSE [ok |-> (hit \cap locked = {}),
              f |-> [n \in DOMAIN f |->
                       IF n \in hit /\ n \notin locked THEN Absent ELSE f[n]]]

\* A generate_parser for which a missing generated file is fatal.
Neqn_generate_parser_strict(f, r) ==
    IF r = "exit0" /\ \E g \in Range(generated_files) : ~Exists(f, g)
    THEN "false"
    ELSE run_command(r)

\* generate_parser: the result of run_command on `yacc ne.g`.  After a
\* success the generated files are looked for in f, the directory yacc left,
\* and a missing one is only warned about.
Neqn_generate_parser(f, r) == run_command(r)

\* build(): if not self.backup_existing_executable(): return False
NeqnBackup ==
    /\ builder = "neqn" /\ pc = "backup"
    /\ \E okU \in OsOk, okR \in OsOk :
         LET b == backup_existing_executable(fs, "neqn", cfg.backup_existing,
                                             okU, okR)
         IN  /\ fs' = b.f
             /\ log' = log \o b.ev
             /\ results' = << >>
             /\ pc' = IF b.ok THEN "check_dependencies" ELSE "done"
             /\ outcome' = IF b.ok THEN "none" ELSE "failed"
             /\ failStage' = IF b.ok THEN "" ELSE "backup"
    /\ UNCHANGED <<io, env, lastRun, builder, cfg, idx, missing, created_files, pre, everGood>>

\* build(): self.check_dependencies(), up to the loop over tools_to_check
NeqnCheckDependencies ==
    /\ builder = "neqn" /\ pc = "check_dependencies"
    /\ missing' = ~Neqn_check_files(fs)
    /\ idx' = 1
    /\ results' = << >>
    /\ pc' = "check_tool"
    /\ UNCHANGED <<io, env, lastRun, builder, cfg, fs, created_files, outcome, failStage, log,
                   pre, everGood>>

\* build(): self.check_dependencies(), one iteration of the loop over
\* tools_to_check and, after the last one, `if missing_items: return False`
\* and build()'s `if not self.check_dependencies(): return False`.
NeqnCheckTool ==
    /\ builder = "neqn" /\ pc = "check_tool"
    /\ \E r \in ProbeResults, w \in ProbeResults :
         LET t == Neqn_check_tool_availability(tools_to_check[idx], r, w)
             last == (idx = Len(tools_to_check))
             miss == (missing \/ ~t.ok)
         IN  /\ missing' = miss
             /\ idx' = IF last THEN idx ELSE idx + 1
             /\ results' = t.rs
             /\ log' = log \o t.ev \o
                       IF last
                       THEN << Ev("stage", "check_dependencies",
                                  IF miss THEN "failed" ELSE "ok") >>
                       ELSE << >>
             /\ pc' = IF ~last THEN "check_tool"
                      ELSE IF miss THEN "done" ELSE "generate_parser"
             /\ outcome' = IF last /\ miss THEN "failed" ELSE "none"
             /\ failStage' = IF last /\ miss THEN "check_dependencies" ELSE ""
    /\ UNCHANGED <<io, env, lastRun, builder, cfg, fs, created_files, pre, everGood>>

\* build(): if not self.generate_parser(): return False
\* `yacc ne.g` through run_command; missing generated files are only warned
\* about.
NeqnGenerateParser ==
    /\ builder = "neqn" /\ pc = "generate_parser"
    /\ \E r \in ResultsOf("yacc") :
       \E g \in GenOf(r) :
         LET rc == Neqn_generate_parser(WriteAll(fs, g), r)
         IN  /\ fs' = WriteAll(fs, g)
             /\ log' = log \o << Ev("tool", "yacc", r) >>
             /\ results' = <<r>>
             /\ pc' = CASE rc = "true"    -> "compile_sources"
                        [] rc = "false"   -> "done"
                        [] rc = "blocked" -> "blocked"
             /\ outcome' = IF rc = "false" THEN "failed" ELSE "none"
             /\ failStage' = IF rc = "false" THEN "generate_parser" ELSE ""
    /\ UNCHANGED <<io, env, lastRun, builder, cfg, idx, missing, created_files, pre, everGood>>

\* build(): if not self.compile_sources(): return False
\* False without starting cc when nothing matches ne*.c; otherwise
\* `cc -O -n -s <matches>` through run_command, which writes a.out and may
\* leave the objects.
NeqnCompileSources ==
    /\ builder = "neqn" /\ pc = "compile_sources"
    /\ \E r \in ResultsOf("cc") : \E o \in LeavesOf(r) :
       \E objs \in ObjsOf(r) :
         LET none == (Glob(fs, source_pattern) = {})
             rc == IF none THEN "false" ELSE run_command(r)
         IN  /\ fs' = IF none THEN fs
                      ELSE WriteAll(Write(fs, "a.out", o), objs)
             /\ log' = IF none THEN log ELSE log \o << Ev("tool", "cc", r) >>
             /\ results' = IF none THEN << >> ELSE <<r>>
             /\ pc' = CASE rc = "true"    -> "rename_executable"
                        [] rc = "false"   -> "done"
                        [] rc = "blocked" -> "blocked"
             /\ outcome' = IF rc = "false" THEN "failed" ELSE "none"
             /\ failStage' = IF rc = "false" THEN "compile_sources" ELSE ""
    /\ UNCHANGED <<io, env, lastRun, builder, cfg, idx, missing, created_files, pre, everGood>>

\* build(): if not self.rename_executable(): continue when a.out exists,
\* else return False
NeqnRenameExecutable ==
    /\ builder = "neqn" /\ pc = "rename_executable"
    /\ \E okU \in OsOk, okR \in OsOk :
         LET m == Neqn_rename_executable(fs, okU, okR)
             go == m.ok \/ Exists(m.f, "a.out")
         IN  /\ fs' = m.f
             /\ log' = log \o m.ev
             /\ results' = << >>
             /\ pc' = IF go THEN "cleanup_intermediate_files" ELSE "done"
             /\ outcome' = IF go THEN "none" ELSE "failed"
             /\ failStage' = IF go THEN "" ELSE "rename_executable"
    /\ UNCHANGED <<io, env, lastRun, builder, cfg, idx, missing, created_files, pre, everGood>>

\* A list of artifacts that counts the C sources among them.
Neqn_clean_artifacts_and_sources ==
    <<"neqn", "a.out", "ne", "*.o", "ne*.c", "y.tab.c", "y.tab.h",
      "neqn.backup">>

\* NeqnBuilder.clean_build: artifacts
Neqn_clean_artifacts ==
    <<"neqn", "a.out", "ne", "*.o", "y.tab.c", "y.tab.h", "neqn.backup">>

\* clean_build: the files an artifact entry stands for: the matches of a
\* pattern containing "*", else the file of that name if it exists.
Neqn_clean_matches(f, a) ==
    IF "*" \in Range(Chars[a]) THEN Glob(f, a)
    ELSE IF Exists(f, a) THEN {a} ELSE {}

\* NeqnBuilder.clean_build: every file of every entry is unlinked, failures
\* are collected and make it return False.
\*   locked : the files whose unlink raises OSError
Neqn_clean_build(f, locked) ==
    LET hit == UNION {Neqn_clean_matches(f, Neqn_clean_artifacts[i]) :
                         i \in 1..Len(Neqn_clean_artifacts)}
    IN  [ok |-> (hit \cap locked = {}),
         f |-> [n \in DOMAIN f |->
                  IF n \in hit /\ n \notin locked THEN Absent ELSE f[n]],
         ev |-> IF hit \cap locked = {} THEN << >>
                ELSE << Ev("unlink", CHOOSE n \in hit \cap locked : TRUE,
                           "oserror") >>]

\* A build() that returns False when the cleanup had failures.
Neqn_after_cleanup_strict(ok) == IF ok THEN "validate_build" ELSE "done"

\* build(): where it goes after cleanup_intermediate_files returned ok: to
\* validate_build in either case, a False only being warned about.
Neqn_after_cleanup(ok) == "validate_build"

\* build(): if not self.cleanup_intermediate_files(): warning only
NeqnCleanupIntermediateFiles ==
    /\ builder = "neqn" /\ pc = "cleanup_intermediate_files"
    /\ \E locked \in Locked(IntermediateMatches(fs)) :
         LET c == Neqn_cleanup_intermediate_files(fs, cfg, locked)
             nxt == Neqn_after_cleanup(c.ok)
         IN  /\ fs' = c.f
             /\ log' = log \o << Ev("stage", "cleanup_intermediate_files",
                                   IF c.ok THEN "ok" ELSE "warning") >>
             /\ pc' = nxt
             /\ outcome' = IF nxt = "done" THEN "failed" ELSE "none"
             /\ failStage' = IF nxt = "done" THEN "cleanup_intermediate_files"
                              ELSE ""
    /\ results' = << >>
    /\ UNCHANGED <<io, env, lastRun, builder, cfg, idx, missing, created_files, pre, everGood>>

\* build(): if not self.validate_build(): return False; return True
\* An exception of validate_build leaves build() as it is.
NeqnValidateBuild ==
    /\ builder = "neqn" /\ pc = "validate_build"
    /\ \E t \in TrialOf(fs["neqn"]) :
         LET v == validate_build(fs, "neqn", t)
             ok == v = "true"
         IN  /\ log' = IF v # "false"
                       THEN log \o << Ev("trial", "neqn", "started") >>
                       ELSE log
             /\ results' = IF v # "false" THEN <<t>> ELSE << >>
             /\ pc' = "done"
             /\ outcome' = CASE v = "true"    -> "success"
                             [] v = "false"   -> "failed"
                             [] v = "oserror" -> "error"
             /\ failStage' = IF ok THEN "" ELSE "validate_build"
             /\ fs' = IF ok THEN MarkGood(fs, "neqn") ELSE fs
             /\ everGood' = (ok \/ everGood)
    /\ UNCHANGED <<io, env, lastRun, builder, cfg, idx, missing, created_files, pre>>

(* --------------------------- runs and Init ---------------------------- *)
Builders == {"troff", "nroff", "neqn"}

DirFiles(b) ==
    CASE b = "troff" -> TroffFiles
      [] b = "nroff" -> NroffFiles
      [] b = "neqn"  -> NeqnFiles

\* A file left by an earlier build: non-empty, executable.
Old(n) == File(1, TRUE, n)

\* The input files of a builder, and the ones whose state Init varies.
Inputs(b) ==
    CASE b = "troff" -> {"t.s", "hytab.s"}
      [] b = "nroff" -> NroffInputs
      [] b = "neqn"  -> {grammar_file} \cup NeqnSources

Varied(b) ==
    CASE b = "troff" -> {"t.s", "hytab.s"}
      [] b = "nroff" -> {"n1.c", "t.o"}
      [] b = "neqn"  -> {grammar_file}

\* The artifacts a previous build may have left.
Finals(b) ==
    CASE b = "troff" -> output_files
      [] b = "nroff" -> {"nroff"}
      [] b = "neqn"  -> {"neqn"}

\* The working directories a first run can find: every input present and
\* non-empty, except that one varied input may be missing or empty (or, for
\* neqn, all C sources missing); the final artifacts of an earlier build all
\* present or all absent; a stale a.out present or absent.
InitDirs(b) ==
    LET good == [n \in DirFiles(b) |->
                   IF n \in Inputs(b) THEN File(1, FALSE, n) ELSE Absent]
        inputs == {good}
                  \cup {[good EXCEPT ![n] = Absent] : n \in Varied(b)}
                  \cup {[good EXCEPT ![n] = File(0, FALSE, n)] : n \in Varied(b)}
                  \cup IF b = "neqn"
                       THEN {[n \in DirFiles(b) |->
                                IF n \in NeqnSources THEN Absent ELSE good[n]]}
                       ELSE {}
    IN  {[n \in DirFiles(b) |->
            IF n \in Finals(b) /\ built THEN Old(n)
            ELSE IF n = "a.out" /\ stale THEN Old(n)
            ELSE i[n]] : i \in inputs, built \in BOOLEAN, stale \in BOOLEAN}

\* The configurations of a builder: the attributes __init__ sets and main()
\* or an embedding caller overrides.
Cfgs(b) ==
    {c \in [backup_existing : BOOLEAN, strip_symbols : BOOLEAN,
            cleanup_objects : BOOLEAN, cleanup_generated : BOOLEAN] :
        /\ b = "troff" => c = [backup_existing |-> FALSE, strip_symbols |-> FALSE,
                               cleanup_objects |-> FALSE,
                               cleanup_generated |-> FALSE]
        /\ b = "nroff" => c.cleanup_objects /\ c.cleanup_generated
        /\ b = "neqn" => /\ c.strip_symbols
                         /\ ~c.backup_existing =>
                               c.cleanup_objects /\ c.cleanup_generated}

\* The configuration __init__ sets.
DefaultCfg == [backup_existing |-> TRUE, strip_symbols |-> TRUE,
               cleanup_objects |-> TRUE, cleanup_generated |-> TRUE]

\* A build() that starts with the dependency check, without a backup step.
FirstStage_no_backup(b) ==
    IF b = "troff" THEN "validate_assembler" ELSE "check_dependencies"

\* The first stage of build_all() / build().
FirstStage(b) == IF b = "troff" THEN "validate_assembler" ELSE "backup"

\* Tools and OS free to behave differently at every call.
AnyEnv == [mode |-> "any", as |-> "exit0", cc |-> "exit0", strip |-> "exit0",
           yacc |-> "exit0", out |-> "datax", gen |-> {}, objs |-> {}]

\* Tools that behave the same way every time they are called: each tool of
\* the builder ends in one way, and the assembler / compiler leaves one kind
\* of a.out, yacc one set of generated files, cc one set of objects.
DetEnvs(b) ==
    {e \in [mode : {"det"}, as : ToolResults, cc : ToolResults,
            strip : ToolResults, yacc : ToolResults, out : OutKinds,
            gen : GenKinds, objs : {{}, NeqnObjects}] :
        /\ b # "troff" => e.as = "exit0"
        /\ b = "troff" => e.cc = "exit0"
        /\ b # "nroff" => e.strip = "exit0"
        /\ b # "neqn" => e.yacc = "exit0" /\ e.gen = {} /\ e.objs = {}
        /\ e.out \in ToolLeaves(IF b = "troff" THEN e.as ELSE e.cc)
        /\ e.yacc # "exit0" => e.gen = {}
        /\ e.cc # "exit0" => e.objs = {}}

\* No previous run to compare with.
NoLast == [outcome |-> "none", fin |-> << >>]

\* Existence, emptiness and executability of the final artifacts.
FinalStates(f) ==
    [n \in Finals(builder) |-> <<f[n].ex, f[n].size, f[n].x>>]

InitRun ==
    /\ builder \in Builders
    /\ cfg \in Cfgs(builder)
    /\ fs \in InitDirs(builder)
    /\ cfg # DefaultCfg /\ builder = "neqn" =>
          \A n \in Inputs(builder) : Exists(fs, n) => ~IsEmpty(fs, n)
    /\ pc = "idle"
    /\ idx = 1
    /\ missing = FALSE
    /\ created_files = << >>
    /\ outcome = "none"
    /\ failStage = ""
    /\ log = << >>
    /\ results = << >>
    /\ pre = fs
    /\ everGood = FALSE
    /\ lastRun = NoLast
    /\ stdin = << >>
    /\ stdout = << >>

Init == InitRun /\ env = AnyEnv

\* The same first states, with tools that behave the same way every time.
InitDet == InitRun /\ env \in DetEnvs(builder)

\* A call of build_all() / build() on the builder object.
StartRun ==
    /\ pc \in {"idle", "done"}
    /\ pc' = FirstStage(builder)
    /\ idx' = 1
    /\ missing' = FALSE
    /\ created_files' = << >>
    /\ outcome' = "none"
    /\ failStage' = ""
    /\ log' = << >>
    /\ results' = << >>
    /\ fs' = Retag(fs)
    /\ pre' = Retag(fs)
    /\ lastRun' = IF env.mode = "any" THEN lastRun
                  ELSE IF outcome \in {"success", "failed", "error"}
                  THEN [outcome |-> outcome, fin |-> FinalStates(fs)]
                  ELSE NoLast
    /\ UNCHANGED <<builder, cfg, everGood, env, io>>

\* A call of clean_build() on the builder object (main() with --clean), as
\* one step: result "cleaned" (True) or "clean_failed" (False).
CleanStep(c) ==
    /\ pc \in {"idle", "done"}
    /\ pc' = "done"
    /\ idx' = 1
    /\ missing' = FALSE
    /\ created_files' = << >>
    /\ outcome' = IF c.ok THEN "cleaned" ELSE "clean_failed"
    /\ failStage' = ""
    /\ log' = c.ev \o << Ev("stage", "clean_build",
                            IF outcome' = "cleaned" THEN "ok" ELSE "failed") >>
    /\ results' = << >>
    /\ fs' = c.f
    /\ pre' = Retag(fs)
    /\ everGood' = \E n \in DOMAIN fs' : fs'[n].ex /\ fs'[n].good
    /\ lastRun' = NoLast
    /\ UNCHANGED <<builder, cfg, env, io>>

NroffCleanBuild ==
    /\ builder = "nroff"
    /\ \E locked \in Locked({n \in Range(Nroff_clean_artifacts) : Exists(fs, n)}) :
         CleanStep(Nroff_clean_build(Retag(fs), locked))

NeqnCleanBuild ==
    /\ builder = "neqn"
    /\ \E locked \in Locked({n \in {"a.out", "neqn"} : Exists(fs, n)}) :
         CleanStep(Neqn_clean_build(Retag(fs), locked))

Next ==
    \/ StartRun
    \/ TroffValidateAssembler
    \/ TroffCleanOutputFiles
    \/ TroffAssembleFile
    \/ TroffExcept
    \/ NroffBackup
    \/ NroffCheckDependencies
    \/ NroffCompileAndLink
    \/ NroffStripExecutable
    \/ NroffRenameExecutable
    \/ NroffValidateBuild
    \/ NeqnBackup
    \/ NeqnCheckDependencies
    \/ NeqnCheckTool
    \/ NeqnGenerateParser
    \/ NeqnCompileSources
    \/ NeqnRenameExecutable
    \/ NeqnCleanupIntermediateFiles
    \/ NeqnValidateBuild
    \/ NroffCleanBuild
    \/ NeqnCleanBuild

Spec == Init /\ [][Next]_vars

\* The runs of a builder whose tools behave the same way every time.
SpecDet == InitDet /\ [][Next]_vars

\* One stage of a run that has been started.  build() and build_all() are
\* straight-line code: once called, each stage follows the one before it
\* without waiting for anything but the processes it starts.
RunStep ==
    \/ TroffValidateAssembler
    \/ TroffCleanOutputFiles
    \/ TroffAssembleFile
    \/ TroffExcept
    \/ NroffBackup
    \/ NroffCheckDependencies
    \/ NroffCompileAndLink
    \/ NroffStripExecutable
    \/ NroffRenameExecutable
    \/ NroffValidateBuild
    \/ NeqnBackup
    \/ NeqnCheckDependencies
    \/ NeqnCheckTool
    \/ NeqnGenerateParser
    \/ NeqnCompileSources
    \/ NeqnRenameExecutable
    \/ NeqnCleanupIntermediateFiles
    \/ NeqnValidateBuild

\* The runs in which a started build() / build_all() keeps executing.
SpecLive == Init /\ [][Next]_vars /\ WF_vars(RunStep)

(* ----------------------- the entry points main() ---------------------- *)
\* The user interrupts a run that has been started (Ctrl-C), also one that
\* waits for a process: KeyboardInterrupt is raised inside build() /
\* build_all().  It is no AssemblyBuildError and no OSError, so no handler of
\* the builder runs and it reaches main() with the directory as it is.
KeyboardInterrupt ==
    /\ pc \notin {"idle", "done"}
    /\ pc' = "done"
    /\ outcome' = "interrupted"
    /\ failStage' = ""
    /\ results' = << >>
    /\ UNCHANGED <<builder, cfg, fs, idx, missing, created_files, log, pre,
                   everGood, env, lastRun, io>>

\* How the interpreter ends the process when a KeyboardInterrupt leaves
\* main() uncaught: with exit status 1 after the traceback, or (from Python
\* 3.8 on) by killing itself with SIGINT, which a shell shows as 130.
UncaughtInterrupt == {"1", "SIGINT"}

\* The exit statuses with which the script of builder b can end after the
\* call of build_all() / build() / clean_build() ended with outcome out.
\* bothrc.py: sys.exit(main()), where main() returns 0 / 1 and handles
\* AssemblyBuildError (1), KeyboardInterrupt (130) and Exception (1).
\* nrc.py, neqnrc.py: sys.exit(0 if success else 1), nothing is handled: an
\* exception that leaves build() ends the process with a traceback and
\* exit status 1.
main_exit(b, out) ==
    IF b = "troff"
    THEN CASE out = "success"     -> {"0"}
           [] out = "failed"      -> {"1"}
           [] out = "error"       -> {"1"}
           [] out = "interrupted" -> {"130"}
           [] OTHER               -> {}
    ELSE CASE out \in {"success", "cleaned"}     -> {"0"}
           [] out \in {"failed", "clean_failed"} -> {"1"}
           [] out = "error"                      -> {"1"}
           [] out = "interrupted"                -> UncaughtInterrupt
           [] OTHER                              -> {}

\* The stages at which build_all() / build() gives up: the raise statements
\* of AssemblyBuildError, and the `return False` of build().
FailStages(b) ==
    CASE b = "troff" -> {"validate_assembler", "validate_source", "assemble",
                         "expected_output", "rename", "verify"}
      [] b = "nroff" -> {"backup", "check_dependencies", "compile_and_link",
                         "strip_executable", "rename_executable",
                         "validate_build"}
      [] b = "neqn"  -> {"backup", "check_dependencies", "generate_parser",
                         "compile_sources", "rename_executable",
                         "validate_build"}

\* The message of the AssemblyBuildError raised at each stage.
AssemblyBuildError ==
    [validate_assembler |-> "Assembler not found or not working",
     validate_source    |-> "Source file not found / is empty",
     assemble           |-> "Assembly failed with return code / timed out",
     expected_output    |-> "Assembler did not create expected output file",
     rename             |-> "Failed to rename",
     verify             |-> "Output file was not created properly"]

\* What the caller of build_all() / build() gets when the run ended with
\* outcome out, a failure being one at stage: build() returns a bool or
\* passes on the OSError of the trial execution, build_all() returns
\* (True, created_files) or raises.
build_returns(b, out, stage) ==
    IF out = "success" THEN <<"True">>
    ELSE IF b # "troff"
    THEN IF out = "error" THEN <<"OSError">> ELSE <<"False">>
    ELSE IF out = "error" THEN <<"FileNotFoundError">>
    ELSE <<"AssemblyBuildError", AssemblyBuildError[stage]>>

\* The runs of the scripts, which the user may interrupt.  Every way in
\* which the call made by main() can end is reached with tools that behave
\* the same way every time.
NextMain == Next \/ KeyboardInterrupt

SpecMain == InitDet /\ [][NextMain]_vars

(* ------------------------- tools/cmporder.py -------------------------- *)
\* A text is a sequence of characters, a line a text without line ends.
\* The characters of the texts considered, with their code points: line
\* feed, form feed, carriage return and two digits.
CodePoint ==
    ("LF" :> 10) @@ ("FF" :> 12) @@ ("CR" :> 13) @@ ("1" :> 49) @@ ("2" :> 50)

TextChars == DOMAIN CodePoint

\* The longest text fed to cmporder.
MaxText == 5

Texts == UNION {[1..n -> TextChars] : n \in 0..MaxText}

\* sys.stdin.read(): the text of standard input in universal-newlines mode,
\* where "\r\n" and a lone "\r" arrive as "\n".
RECURSIVE stdin_read(_)
stdin_read(t) ==
    IF t = << >> THEN << >>
    ELSE IF Head(t) = "CR"
    THEN <<"LF">> \o stdin_read(IF Len(t) >= 2 /\ t[2] = "LF"
                                THEN Tail(Tail(t)) ELSE Tail(t))
    ELSE <<Head(t)>> \o stdin_read(Tail(t))

\* The characters at which str.splitlines() ends a line ("\r\n" counting as
\* one line end).
LineBoundaries == {"LF", "FF", "CR"}

\* str.splitlines(): the lines of t without their line ends; cur is the line
\* read so far.  A text that does not end in a line end has a last line all
\* the same, and there is no empty line after the last line end.
RECURSIVE splitlines_from(_, _)
splitlines_from(t, cur) ==
    IF t = << >> THEN (IF cur = << >> THEN << >> ELSE <<cur>>)
    ELSE IF Head(t) \in LineBoundaries
    THEN <<cur>> \o splitlines_from(IF Head(t) = "CR" /\ Len(t) >= 2
                                       /\ t[2] = "LF"
                                    THEN Tail(Tail(t)) ELSE Tail(t), << >>)
    ELSE splitlines_from(Tail(t), Append(cur, Head(t)))

splitlines(t) == splitlines_from(t, << >>)

\* str.__lt__: comparison of two strings by code points.
RECURSIVE str_lt(_, _)
str_lt(a, b) ==
    IF b = << >> THEN FALSE
    ELSE IF a = << >> THEN TRUE
    ELSE IF Head(a) = Head(b) THEN str_lt(Tail(a), Tail(b))
    ELSE CodePoint[Head(a)] < CodePoint[Head(b)]

\* list.sort(): stable sort by str.__lt__, as insertion from the left.
RECURSIVE list_insert(_, _)
list_insert(ls, x) ==
    IF ls = << >> THEN <<x>>
    ELSE IF str_lt(x, Head(ls)) THEN <<x>> \o ls
    ELSE <<Head(ls)>> \o list_insert(Tail(ls), x)

RECURSIVE list_sort(_)
list_sort(ls) ==
    IF ls = << >> THEN << >>
    ELSE list_insert(list_sort(SubSeq(ls, 1, Len(ls) - 1)), ls[Len(ls)])

\* for line in lines: print(line)
RECURSIVE print_lines(_)
print_lines(ls) ==
    IF ls = << >> THEN << >>
    ELSE Head(ls) \o <<"LF">> \o print_lines(Tail(ls))

\* main() of cmporder.py: what it writes for the text t on standard input.
cmporder_main(t) == print_lines(list_sort(splitlines(stdin_read(t))))

\* A run of cmporder on the text on its standard input: the first one, or
\* the one on the text the first run wrote.
cmporder ==
    /\ builder = "cmporder" /\ pc \in {"idle", "fed"}
    /\ stdout' = cmporder_main(stdin)
    /\ pc' = IF pc = "idle" THEN "sorted" ELSE "resorted"
    /\ UNCHANGED <<builder, cfg, fs, idx, missing, created_files, outcome,
                   failStage, log, results, pre, everGood, env, lastRun,
                   stdin>>

\* The text cmporder wrote is put on the standard input of another run of
\* it (test_cmporder.py, run_cmporder: input=...).
FeedBack ==
    /\ builder = "cmporder" /\ pc = "sorted"
    /\ stdin' = stdout
    /\ stdout' = << >>
    /\ pc' = "fed"
    /\ UNCHANGED <<builder, cfg, fs, idx, missing, created_files, outcome,
                   failStage, log, results, pre, everGood, env, lastRun>>

\* sorted(lines) of test_cmporder.py, the reference the output is compared
\* with: the least line first, then the others sorted.
RECURSIVE sorted(_)
sorted(ls) ==
    IF ls = << >> THEN << >>
    ELSE LET m == CHOOSE i \in 1..Len(ls) :
                      \A j \in 1..Len(ls) :
                          /\ ~str_lt(ls[j], ls[i])
                          /\ (j < i => str_lt(ls[i], ls[j]))
         IN  <<ls[m]>> \o sorted(SubSeq(ls, 1, m - 1)
                                  \o SubSeq(ls, m + 1, Len(ls)))

\* cmporder started with any text of at most MaxText characters.
InitSort ==
    /\ builder = "cmporder"
    /\ stdin \in Texts
    /\ stdout = << >>
    /\ pc = "idle"
    /\ cfg = DefaultCfg
    /\ fs = << >>
    /\ idx = 1
    /\ missing = FALSE
    /\ created_files = << >>
    /\ outcome = "none"
    /\ failStage = ""
    /\ log = << >>
    /\ results = << >>
    /\ pre = << >>
    /\ everGood = FALSE
    /\ env = AnyEnv
    /\ lastRun = NoLast

NextSort == cmporder \/ FeedBack

SpecSort == InitSort /\ [][NextSort]_vars

(* ------------------------- auxiliary notions -------------------------- *)
Final == output_executable[builder]

Backup == backup_path[builder]

HasBackupStep == builder \in {"nroff", "neqn"}

\* The run has ended without reporting success: build() returned False, or
\* build_all() raised.
RunFailed == pc = "done" /\ outcome \in {"failed", "error"}

\* Two file states hold the same content with the same size and mode.
SameFile(a, b) ==
    a.ex = b.ex /\ a.size = b.size /\ a.x = b.x /\ a.org = b.org

\* The positions of the log holding an event of one of the kinds.
EvAt(kinds) == {i \in 1..Len(log) : log[i].kind \in kinds}

\* Some required input was absent / absent or empty when the run started.
AbsentInput == \E n \in Inputs(builder) : ~pre[n].ex

DefectiveInput == \E n \in Inputs(builder) : ~pre[n].ex \/ pre[n].size = 0

\* A run of build() / build_all() has been started and no clean_build()
\* was called since.
InBuild == pc # "idle" /\ outcome \notin {"cleaned", "clean_failed"}

C2_NoTempAfterSuccess ==
    outcome = "success" => ~fs["a.out"].ex

\* C3 (as claimed): with backup enabled, after any sequence of runs the
\* content of the most recent artifact a run reported as built is still
\* present under the final name or the backup name.
C3_LastGoodKept ==
    (HasBackupStep /\ cfg.backup_existing /\ pc = "done" /\ InBuild
     /\ everGood) =>
        \E n \in {Final, Backup} : fs[n].ex /\ fs[n].good

\* C4 (as claimed): in every pipeline, after a failed run every final
\* artifact that existed before the run still has its pre-run content in the
\* directory, under the final name or, where there is one, the backup name.
C4_FailedRunKeepsArtifact ==
    RunFailed =>
        \A n \in Finals(builder) :
            pre[n].ex =>
                \E m \in {n} \cup (IF HasBackupStep THEN {Backup} ELSE {}) :
                    fs[m].ex /\ fs[m].org = n

\* C5: in nroff and neqn with backup enabled, after a run that reports
\* success the backup file holds exactly the content the final artifact had
\* before the run, if there was one; if there was none, the backup name is as
\* the run found it (no backup file is created).
C5_BackupIdentical ==
    (HasBackupStep /\ cfg.backup_existing /\ outcome = "success") =>
        IF pre[Final].ex
        THEN SameFile(fs[Backup], pre[Final])
        ELSE SameFile(fs[Backup], pre[Backup])

\* A run succeeded that found both an artifact and an older backup.
C5_Witness ==
    /\ HasBackupStep /\ cfg.backup_existing /\ outcome = "success"
    /\ pre[Final].ex /\ pre[Backup].ex
    /\ SameFile(fs[Backup], pre[Final])
    /\ fs[Final].org = "tool"

\* The build tools (kind "tool") and all processes the run started.
ToolEvents == EvAt({"tool"})

ProcessEvents == EvAt({"probe", "tool", "trial"})

TroffBlocked ==
    {j \in 1..Len(build_targets) :
        \E i \in 1..j : ~Troff_validate_source_file(pre, build_targets[i][1])}

C7_NoToolAfterFailure ==
    \A i \in ToolEvents : \A j \in ToolEvents :
        i < j => log[i].res = "exit0"

\* A run ended by the failure of its second build tool.
C7_Witness ==
    /\ pc = "done" /\ outcome = "failed"
    /\ \E i \in ToolEvents : \E j \in ToolEvents :
          i < j /\ log[j].res = "exit1" /\ j = Len(log)

\* No generated file is in the directory.
NoneGenerated == \A g \in Range(generated_files) : ~fs[g].ex

LastTool == log[CHOOSE i \in ToolEvents : \A j \in ToolEvents : j <= i]

BackupDoneBefore(i) ==
    \E j \in 1..(i - 1) :
        log[j].kind = "stage" /\ log[j].name = "backup"
        /\ log[j].res \in {"done", "skipped"}

\* C9: in nroff and neqn with backup enabled, every unlink of the final
\* artifact and every rename onto it comes after the completed backup step
\* of the same run; and a run that finds no final artifact skips the backup
\* and goes on.
C9_BackupBeforeDestruction ==
    (HasBackupStep /\ cfg.backup_existing /\ InBuild) =>
        /\ \A i \in EvAt({"unlink", "rename"}) :
              log[i].name = Final => BackupDoneBefore(i)
        /\ (~pre[Final].ex /\ InBuild /\ pc # "backup") =>
              /\ Len(log) >= 1
              /\ log[1] = Ev("stage", "backup", "skipped")
              /\ failStage # "backup"

\* A run that found an artifact has renamed the new one into place.
C9_Witness ==
    /\ HasBackupStep /\ cfg.backup_existing /\ pre[Final].ex
    /\ \E i \in EvAt({"rename"}) :
          log[i].name = Final /\ log[i].res = "ok" /\ BackupDoneBefore(i)

\* C10 (as claimed): a run of nroff or neqn that fails in the dependency
\* check because an input is missing leaves the final artifact it found
\* under its final name.
C10_ValidationBeforeBackup ==
    (HasBackupStep /\ pc = "done" /\ failStage = "check_dependencies"
     /\ AbsentInput /\ pre[Final].ex) =>
        fs[Final].ex /\ fs[Final].org = Final

\* The backup step of the run raised an OS error.
BackupFailed ==
    \E i \in EvAt({"stage"}) : log[i] = Ev("stage", "backup", "failed")

C12_NoTempAfterFailure ==
    (RunFailed
     /\ ~\E i \in EvAt({"stage"}) :
            log[i] = Ev("stage", "clean_temp_files", "oserror")) =>
        ~fs[temp_output].ex

\* The last process of the last stage was a build tool or a trial execution
\* and exited non-zero.
NonProbeExitedNonZero ==
    /\ Len(log) >= 1 /\ log[Len(log)].kind \in {"tool", "trial"}
    /\ Len(results) >= 1 /\ results[Len(results)] = "exit1"

\* C13 (as claimed): a process other than an availability probe that exits
\* non-zero makes the run fail.
C13_OnlyProbesTolerated ==
    NonProbeExitedNonZero => outcome # "success"

\* C13 (amended): a build tool (as, cc, strip, yacc) that exits non-zero
\* makes the run fail: it is the last build tool of the run, no later stage
\* but the failure cleanup of build_all follows, and the run is reported as
\* failed.  (The probes and the trial execution of validate_build are the
\* processes whose exit code is not looked at.)
C13_BuildToolFailureFatal ==
    \A i \in ToolEvents :
        log[i].res = "exit1" =>
            /\ \A j \in ToolEvents : j <= i
            /\ pc \in {"except", "done"}
            /\ outcome # "success"
            /\ pc = "done" => outcome = "failed"
            /\ failStage \in {"assemble", "compile_and_link",
                              "strip_executable", "generate_parser",
                              "compile_sources"}

\* strip exited non-zero and the run failed at the strip stage.
C13_Witness ==
    /\ pc = "done" /\ outcome = "failed" /\ failStage = "strip_executable"
    /\ \E i \in ToolEvents : log[i] = Ev("tool", "strip", "exit1")

\* The final name the placement step of the run is working on, and the tool
\* that writes the temporary output for it.
Target == IF builder = "troff" THEN build_targets[idx][2] ELSE Final

PlacerTool ==
    IF builder = "troff" THEN "as " \o build_targets[idx][1] ELSE "cc"

\* The tool writing the temporary output was the last one started, exited 0,
\* and there is no temporary output: none in the directory, the target does
\* not hold one that was moved there, and none was deleted by the failure
\* cleanup after a placement that raised an OS error.
TempMissing ==
    /\ ToolEvents # {}
    /\ LastTool = Ev("tool", PlacerTool, "exit0")
    /\ ~fs[temp_output].ex
    /\ builder = "neqn" => ~fs["ne"].ex
    /\ fs[Target].org \notin {"tool", temp_output, "ne"}
    /\ ~\E i \in EvAt({"unlink", "rename"}) :
           log[i].name = Target /\ log[i].res = "oserror"

\* What holds in either reading of C14 once the temporary output is missing:
\* the run does not go on to validation and does not report success, and no
\* unlink or rename has touched the target.
TempMissingStops ==
    /\ pc \in (CASE builder = "troff" -> {"except", "done"}
                 [] builder = "nroff" -> {"strip_executable",
                                          "rename_executable", "done"}
                 [] builder = "neqn"  -> {"rename_executable", "done"})
    /\ outcome # "success"
    /\ pc = "done" => outcome = "failed"
    /\ \A i \in EvAt({"unlink", "rename"}) : log[i].name # Target

\* C14 (as claimed): when the tool exited 0 and left no temporary output,
\* the run fails at placement (expected output missing), the final name is
\* not touched by the placement and the run does not report success.
C14_MissingTempFailsPlacement ==
    TempMissing =>
        /\ TempMissingStops
        /\ pc = "done" => failStage \in {"expected_output", "rename_executable"}

\* C14 (amended): the same, except that nroff with strip_symbols on fails
\* one stage earlier: strip_executable finds a.out missing and fails the run
\* before strip is started and before the placement step runs.
C14_MissingTempFails ==
    TempMissing =>
        /\ TempMissingStops
        /\ pc = "done" =>
              failStage \in {"expected_output", "rename_executable",
                             "strip_executable"}
        /\ (pc = "done" /\ failStage = "strip_executable") =>
              builder = "nroff" /\ cfg.strip_symbols

\* nroff without backup and without strip found an old nroff, cc exited 0
\* without an a.out, and the run failed at the placement with the old nroff
\* untouched.
C14_Witness ==
    /\ TempMissing /\ builder = "nroff" /\ ~cfg.backup_existing
    /\ pc = "done" /\ failStage = "rename_executable"
    /\ pre[Final].ex /\ SameFile(fs[Final], pre[Final])

\* C15 (as claimed): a zero-byte temporary output of a tool that exited 0,
\* moved to the final name, is found by the placement step, which fails the
\* run: with such a file under a final name the run is on its way out or
\* has ended as failed at the placement.
C15_ZeroByteOutputFails ==
    \A n \in Finals(builder) :
        (InBuild /\ fs[n].ex /\ fs[n].org = "tool" /\ fs[n].size = 0) =>
            /\ pc \in {"except", "done"}
            /\ pc = "done" =>
                  /\ outcome = "failed"
                  /\ failStage \in {"verify", "rename_executable"}

\* An unlink of a final name or a rename onto it, done by the placement step,
\* raised an OS error.
PlacementIOError ==
    \E i \in EvAt({"unlink", "rename"}) :
        log[i].name \in Finals(builder) /\ log[i].res = "oserror"

\* C16 (as claimed): after an OS error in the delete or the rename of the
\* placement step the run goes to no later stage and does not report success.
C16_PlacementErrorFatal ==
    PlacementIOError =>
        /\ pc \in {"except", "done"}
        /\ outcome # "success"

\* The results with which the cleanup of intermediate files (neqn) or of the
\* temporary output after a failure (troff) ended in this run.
CleanupResults(stage) ==
    {log[i].res : i \in {j \in EvAt({"stage"}) : log[j].name = stage}}

\* C17: the verdict does not depend on how a cleanup ended.  In neqn, after
\* cleanup_intermediate_files, with or without failed deletions, the run goes
\* on to validate_build and its verdict is exactly what validate_build finds;
\* in troff, a run that reached the failure cleanup is reported as failed
\* whether the deletion of a.out succeeded or not.
C17_CleanupNeverDecides ==
    /\ (builder = "neqn"
        /\ CleanupResults("cleanup_intermediate_files") # {}) =>
          /\ pc \in {"validate_build", "done"}
          /\ failStage \in {"", "validate_build"}
          /\ pc = "done" =>
                /\ outcome \in {"success", "failed", "error"}
                /\ LET t == IF results = << >> THEN "none" ELSE results[1]
                       v == validate_build(fs, "neqn", t)
                   IN  outcome = CASE v = "true"    -> "success"
                                   [] v = "false"   -> "failed"
                                   [] v = "oserror" -> "error"
    /\ (builder = "troff" /\ CleanupResults("clean_temp_files") # {}) =>
          pc = "done" /\ outcome = "failed"

\* A neqn run reported success although a deletion of its cleanup failed.
C17_Witness ==
    /\ builder = "neqn" /\ outcome = "success"
    /\ CleanupResults("cleanup_intermediate_files") = {"warning"}
    /\ IntermediateMatches(fs) # {}

\* C18 (as claimed): after a neqn run that started a build tool, no file
\* matching an intermediate pattern is in the directory, unless its deletion
\* was tried and failed.
C18_IntermediatesRemoved ==
    (builder = "neqn" /\ pc = "done" /\ ToolEvents # {}
     /\ "warning" \notin CleanupResults("cleanup_intermediate_files")) =>
        IntermediateMatches(fs) = {}

\* The names clean_build() of the builder is to remove.
CleanNames ==
    IF builder = "nroff" THEN Range(Nroff_clean_artifacts)
    ELSE NeqnFiles \ Inputs("neqn")

\* The unlink of the file raised an OS error in this call.
UnlinkFailed(n) ==
    \E i \in EvAt({"unlink"}) : log[i] = Ev("unlink", n, "oserror")

\* C19 (as claimed): after clean_build() every file it is to remove is gone
\* unless the unlink of that very file failed, and it returns False only if
\* some unlink failed.
C19_CleanBuildExhaustive ==
    outcome \in {"cleaned", "clean_failed"} =>
        /\ \A n \in CleanNames : fs[n].ex => UnlinkFailed(n)
        /\ outcome = "clean_failed" => \E n \in CleanNames : UnlinkFailed(n)

\* C20 (as claimed): with tools that behave the same way every time, a run
\* that follows another run ends with the same verdict and leaves the final
\* artifacts with the same existence, emptiness and executability.
C20_RerunSameResult ==
    (pc = "done" /\ InBuild /\ lastRun.outcome # "none") =>
        /\ outcome = lastRun.outcome
        /\ FinalStates(fs) = lastRun.fin

\* The compile/link invocation of this nroff run exited non-zero.
CompileExitedNonZero ==
    /\ builder = "nroff" /\ InBuild /\ ToolEvents # {}
    /\ LastTool = Ev("tool", "cc", "exit1")

\* C21 (as claimed): when cc exits non-zero in an nroff run, the run fails
\* at the compile stage, the failure message holds what cc wrote to stderr,
\* and no file nroff is in the directory afterwards.
C21_CompileFailureNoExecutable ==
    CompileExitedNonZero =>
        /\ pc = "done" /\ outcome = "failed"
        /\ failStage = "compile_and_link"
        /\ "stderr" \in Range(run_command_message("Compiling and linking NROFF",
                                                  LastTool.res))
        /\ ~fs[Final].ex

\* A troff run with both sources present and non-empty and an assembler that
\* exits 0 and writes a non-empty a.out every time it is started.
AssemblerAlwaysWorks ==
    /\ builder = "troff" /\ InBuild /\ ~DefectiveInput
    /\ env.mode = "det" /\ env.as = "exit0" /\ env.out \in {"data", "datax"}

ProbeJustEnded ==
    /\ Len(results) >= 1 /\ Len(log) >= 1
    /\ \/ log[Len(log)].kind = "probe"
       \/ /\ Len(log) >= 2
          /\ log[Len(log)] \in {Ev("stage", "check_dependencies", "ok"),
                                Ev("stage", "check_dependencies", "failed")}
          /\ log[Len(log) - 1].kind = "probe"

\* The preflight validation has failed: _validate_assembler raised, or
\* check_dependencies has recorded a missing item.
PreflightFailed ==
    IF builder = "troff"
    THEN pc = "except" /\ failStage = "validate_assembler"
    ELSE missing

\* C23 (as claimed): in every pipeline, preflight fails when the process of
\* a required tool cannot be started, so that no build invocation is tried
\* with such a tool, and it does not fail when the probes of the tool start
\* and exit, be it non-zero.
C23_PreflightFindsUnstartableTool ==
    /\ (ProbeJustEnded /\ results[1] = "notfound") => PreflightFailed
    /\ builder = "nroff" =>
          \A i \in ToolEvents : log[i] # Ev("tool", "cc", "notfound")
    /\ (ProbeJustEnded /\ results[1] = "exit1"
        /\ \A k \in 1..Len(results) : results[k] \in {"exit0", "exit1"}) =>
          /\ builder = "troff" => ~PreflightFailed
          /\ (builder = "neqn" /\ pc = "check_tool" /\ Neqn_check_files(fs)) =>
                ~PreflightFailed

\* C24 (as claimed): a build invocation whose executable cannot be resolved
\* ends the run with the failure of the pipeline itself: run_command returns
\* False and build() with it, and assemble_file raises AssemblyBuildError, so
\* that build_all goes through its failure handler and the cleanup of a.out;
\* no other exception leaves build_all().
C24_ToolNotFoundTyped ==
    \A i \in ToolEvents :
        log[i].res = "notfound" =>
            /\ outcome # "error"
            /\ HasBackupStep => pc = "done" /\ outcome = "failed"
            /\ builder = "troff" =>
                  \/ pc = "except"
                  \/ /\ pc = "done" /\ outcome = "failed"
                     /\ CleanupResults("clean_temp_files") # {}

\* C25 (as claimed): every run that was started ends, in success or in
\* failure, whatever the external tools do.
C25_EveryRunEnds ==
    [](InBuild => <>(pc = "done"))

\* C26 (as claimed): when the call made by main() has ended, the script
\* exits with 0 exactly if a run reported success, with 1 if the run failed,
\* and with a status other than 0 and 1 if the user interrupted it.
C26_ExitCodes ==
    (pc = "done" /\ InBuild) =>
        /\ main_exit(builder, outcome) # {}
        /\ \A c \in main_exit(builder, outcome) :
              /\ c = "0" <=> outcome = "success"
              /\ outcome \in {"failed", "error"} => c = "1"
              /\ outcome = "interrupted" => c \notin {"0", "1"}

\* C27 (as claimed): what a failed run returns to its caller tells the stage
\* that failed: a failure at any other stage would have returned something
\* else.
C27_FailureNamesStage ==
    (pc = "done" /\ InBuild /\ outcome = "failed") =>
        /\ failStage \in FailStages(builder)
        /\ \A s \in FailStages(builder) \ {failStage} :
              build_returns(builder, outcome, s)
                  # build_returns(builder, outcome, failStage)

\* The lines of a text: the stretches of characters ended by a line end
\* ("\n", "\r\n" or "\r"), and the stretch after the last line end if it is
\* not empty; cur is the line read so far.
RECURSIVE TextLinesFrom(_, _)
TextLinesFrom(t, cur) ==
    IF t = << >> THEN (IF cur = << >> THEN << >> ELSE <<cur>>)
    ELSE IF Head(t) = "LF"
    THEN <<cur>> \o TextLinesFrom(Tail(t), << >>)
    ELSE IF Head(t) = "CR"
    THEN <<cur>> \o TextLinesFrom(IF Len(t) >= 2 /\ t[2] = "LF"
                                   THEN Tail(Tail(t)) ELSE Tail(t), << >>)
    ELSE TextLinesFrom(Tail(t), Append(cur, Head(t)))

InputLines == TextLinesFrom(stdin, << >>)

OutputLines == TextLinesFrom(stdout, << >>)

\* cmporder has run on the text on its standard input.
HasSorted == builder = "cmporder" /\ pc \in {"sorted", "resorted"}

\* No line is less than the line before it.
Ordered(ls) == \A i \in 1..(Len(ls) - 1) : ~str_lt(ls[i + 1], ls[i])

\* How often the line occurs among the lines.
Count(ls, l) == Cardinality({i \in 1..Len(ls) : ls[i] = l})

\* C28 (as claimed): the lines cmporder writes are in non-decreasing order
\* by string comparison and are the reference sort of the input lines.
C28_OutputIsReferenceSort ==
    HasSorted =>
        /\ Ordered(OutputLines)
        /\ OutputLines = sorted(InputLines)

\* C29 (as claimed): every line occurs among the lines cmporder writes as
\* often as among its input lines.
C29_OutputIsPermutation ==
    HasSorted =>
        \A l \in Range(InputLines) \cup Range(OutputLines) :
            Count(OutputLines, l) = Count(InputLines, l)

\* C30 (as claimed): input whose lines are in order comes out with the same
\* lines in the same order, and cmporder run on its own output writes that
\* output again.
C30_SortedInputUnchanged ==
    /\ (HasSorted /\ Ordered(InputLines)) => OutputLines = InputLines
    /\ (builder = "cmporder" /\ pc = "resorted") => stdout = stdin

\* The placement step of this run has renamed a file to the final name n.
PlacedThisRun(n) ==
    \E i \in EvAt({"rename"}) : log[i] = Ev("rename", n, "ok")

\* C31 (as claimed): the file a successful run has placed under a final name
\* was written by a tool of that run; it is never an a.out or ne the run
\* found in the directory.
C31_PlacedFileIsFresh ==
    (outcome = "success" /\ InBuild) =>
        \A n \in Finals(builder) :
            (PlacedThisRun(n) /\ fs[n].ex) => fs[n].org = "tool"

\* C32: a troff run whose assembler probe failed goes to the failure handler
\* and ends as failed with t.o and hytab.o exactly as it found them, having
\* started no assembly and tried no unlink or rename of an output; and the
\* cleaning of the outputs is always preceded by the probe.
C32_ProbeFailureKeepsObjects ==
    /\ (builder = "troff" /\ InBuild /\ failStage = "validate_assembler") =>
          /\ pc \in {"except", "done"}
          /\ pc = "done" => outcome = "failed"
          /\ \A n \in output_files : SameFile(fs[n], pre[n])
          /\ ToolEvents = {} /\ EvAt({"unlink", "rename"}) = {}
    /\ (builder = "troff" /\ InBuild) =>
          \A i \in EvAt({"stage"}) :
              log[i].name = "clean_output_files" =>
                  i > 1 /\ log[1] = Ev("probe", "as", "started")

\* The probe failed in a directory holding both objects and a stale a.out,
\* and the run has ended.
C32_Witness ==
    /\ builder = "troff" /\ pc = "done" /\ outcome = "failed"
    /\ failStage = "validate_assembler"
    /\ \A n \in output_files : pre[n].ex /\ fs[n].ex
    /\ pre[temp_output].ex

\* C33 (as claimed): a finished run of TroffBuilder.build_all has one of two
\* outcomes: it returned (True, [t.o, hytab.o]), or it raised
\* AssemblyBuildError, in which case the caller gets the exception with its
\* message and no list of the objects produced so far.
C33_TwoOutcomes ==
    (builder = "troff" /\ InBuild /\ pc = "done") =>
        LET ret == build_returns(builder, outcome, failStage)
        IN  \/ /\ outcome = "success"
               /\ ret = <<"True">>
               /\ created_files = <<"t.o", "hytab.o">>
            \/ /\ outcome = "failed"
               /\ ret[1] = "AssemblyBuildError"
               /\ Len(ret) = 2

\* NroffBuilder.build: the stage that follows each stage.
NroffStageAfter ==
    [backup             |-> "check_dependencies",
     check_dependencies |-> "compile_and_link",
     compile_and_link   |-> "strip_executable",
     strip_executable   |-> "rename_executable",
     rename_executable  |-> "validate_build",
     validate_build     |-> "done"]

\* The strip tool was started.
StripRuns(l) == {i \in 1..Len(l) : l[i].kind = "tool" /\ l[i].name = "strip"}

\* One step of an nroff run, from stage pc to pc'.
C34_Step ==
    (builder = "nroff" /\ pc \in DOMAIN NroffStageAfter /\ pc' # pc) =>
        LET stripFailed ==
                /\ pc = "strip_executable" /\ cfg.strip_symbols
                /\ \/ ~Exists(fs, "a.out")
                   \/ \E r \in {"exit1", "notfound"} :
                          log' = log \o << Ev("tool", "strip", r) >>
        IN  /\ pc' \in {NroffStageAfter[pc], "done", "blocked"}
            /\ (pc' = "done" /\ pc # "validate_build") => outcome' = "failed"
            /\ pc' = "rename_executable" =>
                  /\ pc = "strip_executable"
                  /\ IF cfg.strip_symbols
                     THEN log' = log \o << Ev("tool", "strip", "exit0") >>
                     ELSE log' = log
            /\ stripFailed =>
                  /\ pc' = "done" /\ outcome' = "failed"
                  /\ failStage' = "strip_executable"
                  /\ fs' = fs
                  /\ \A i \in EvAt({"rename"}) : log[i].name # "nroff"
            /\ ~cfg.strip_symbols =>
                  /\ StripRuns(log') = {}
                  /\ pc = "strip_executable" =>
                        pc' = "rename_executable" /\ fs' = fs

\* C34: an nroff run goes through backup, dependency check, compile/link,
\* strip, rename and validate in this order, each stage either handing over
\* to the next or ending the run as failed.  The rename stage is entered
\* only from the strip stage, after strip exited 0 or with stripping
\* disabled.  With stripping enabled, a strip that fails or a missing a.out
\* ends the run as failed at the strip stage with the directory unchanged
\* and no rename to nroff tried.  With stripping disabled strip is never
\* started and the strip stage hands over to the rename stage at once.
C34_StripBeforeRename == [][C34_Step]_vars

\* cc exited 0 and wrote a.out, strip exited non-zero: the run failed at the
\* strip stage and there is no nroff.
C34_Witness ==
    /\ builder = "nroff" /\ cfg.strip_symbols
    /\ pc = "done" /\ outcome = "failed" /\ failStage = "strip_executable"
    /\ \E i \in StripRuns(log) : log[i].res = "exit1"
    /\ fs["a.out"].ex /\ ~fs["nroff"].ex

\* The artifacts clean_build covers: a.out and nroff for nroff; neqn, a.out,
\* ne, every *.o, y.tab.c, y.tab.h and neqn.backup for neqn.
Covered ==
    IF builder = "nroff" THEN {"a.out", "nroff"}
    ELSE {"neqn", "a.out", "ne", "y.tab.c", "y.tab.h", "neqn.backup"}
         \cup {n \in NeqnFiles : FnMatch(Chars["*.o"], Chars[n])}

\* C35: after a clean_build that returned True no covered artifact exists
\* and every other file of the directory is as it was; after one that
\* returned False a covered artifact still exists, and the other files are
\* as they were as well.
C35_CleanBuildResult ==
    /\ outcome = "cleaned" =>
          /\ \A n \in Covered : ~fs[n].ex
          /\ \A n \in DOMAIN fs \ Covered : SameFile(fs[n], pre[n])
    /\ outcome = "clean_failed" =>
          /\ \E n \in Covered : fs[n].ex
          /\ \A n \in DOMAIN fs \ Covered : SameFile(fs[n], pre[n])

\* neqn's clean_build found neqn, neqn.backup, an object file and y.tab.h,
\* returned True and left the grammar and the C sources as they were.
C35_Witness ==
    /\ builder = "neqn" /\ outcome = "cleaned"
    /\ pre["neqn"].ex /\ pre["neqn.backup"].ex
    /\ pre["ne0.o"].ex /\ pre["y.tab.h"].ex
    /\ fs["ne.g"].ex /\ fs["ne0.c"].ex

\* The existing files of the intermediate patterns *.o and y.tab.c.
Intermediates(f) ==
    {n \in NeqnFiles : f[n].ex /\ (n = "y.tab.c" \/ FnMatch(Chars["*.o"], Chars[n]))}

\* The cleanup step of a neqn run.
C36_Step ==
    (builder = "neqn" /\ pc = "cleanup_intermediate_files" /\ pc' # pc) =>
        LET enabled == cfg.cleanup_objects \/ cfg.cleanup_generated
            kept == Intermediates(fs) \cap Intermediates(fs')
            warned == log' = log \o << Ev("stage", "cleanup_intermediate_files",
                                          "warning") >>
        IN  /\ ~enabled => fs' = fs /\ ~warned
            /\ enabled =>
                  /\ kept # {} <=> warned
                  /\ \A n \in DOMAIN fs \ Intermediates(fs) : fs'[n] = fs[n]

\* C36: the cleanup step of a neqn run leaves the directory as it is when
\* cleanup_objects and cleanup_generated are both off.  When at least one of
\* them is on, whichever it is, every object file and y.tab.c are removed
\* and nothing else is; a file of these patterns stays only when its
\* deletion raised an OS error, which the step warns about.
C36_OneFlagCleansAll == [][C36_Step]_vars

\* With cleanup_objects off and cleanup_generated on, an object file found
\* at the start of the run is gone after the cleanup step, and so is y.tab.c.
C36_Witness ==
    /\ builder = "neqn" /\ ~cfg.cleanup_objects /\ cfg.cleanup_generated
    /\ pc = "validate_build"
    /\ pre["ne0.o"].ex /\ ~fs["ne0.o"].ex /\ ~fs["y.tab.c"].ex
    /\ CleanupResults("cleanup_intermediate_files") = {"ok"}

\* C37 (as claimed): the trial execution never changes the verdict of
\* validate_build.  A finished nroff or neqn run that started the trial of
\* an executable found present and marked executable reports success,
\* however the trial ended; and a run that ended in validate_build without
\* success is one whose executable was missing or not marked executable.
C37_TrialNeverDecides ==
    (HasBackupStep /\ InBuild /\ pc = "done") =>
        /\ EvAt({"trial"}) # {} => outcome = "success"
        /\ failStage = "validate_build" =>
              /\ outcome = "failed"
              /\ ~(Exists(fs, Final) /\ fs[Final].x)

=============================================================================
